---- MODULE Spec2Model ----
(***************************************************************************)
(* Model of the FusionFall monitor session of src/src/utils/Util.ts        *)
(* (connectFusionFall): the socket handlers onData / onErr / onEnd, the    *)
(* reconnect timer, and processBuffer with its line dispatch.              *)
(*                                                                         *)
(* A string is a sequence of one-character strings, so that split,         *)
(* indexOf, substring, startsWith, includes, toLowerCase and the chat      *)
(* regular expression are computed character by character.                 *)
(***************************************************************************)
EXTENDS Integers, Sequences, FiniteSets, TLC

VARIABLES
    online,      \* let online: boolean (undefined, hence falsy, until set)
    population,  \* let population = 0
    buffer,      \* let buffer: string[]
    socket,      \* state of the net.Socket the variable socket refers to
    stale,       \* sockets no longer referred to, handlers still attached
    timers,      \* pending setTimeout(attemptReconnect, 10000) timers
    crashed,     \* an exception left a handler uncaught: the process is gone
    event,       \* the handler that ran last
    queue,       \* the block sliced by the last processBuffer
    sent,        \* channel.send texts of the last handler, in order
    logs,        \* console.log lines of the last handler, in order
    activity,    \* setActivity texts of the last handler, in order
    env          \* what the last handler's lookups and its input were

vars == <<online, population, buffer, socket, stale, timers, crashed,
          event, queue, sent, logs, activity, env>>

----------------------------------------------------------------------------
(* Bounds of the model.                                                    *)

MaxBuffer == 4    \* lines the buffer may hold; a longer one refuses the data
MaxBlock == 2     \* lines between begin and end in a block sent whole
MaxPending == 2   \* sockets and timers a reconnect can follow from; sockets
                  \* half-closed at a time
MaxMerged == 5    \* lines the buffer may hold where a block left open by a
                  \* disconnect is followed by a whole block

----------------------------------------------------------------------------
(* JavaScript string and array primitives.                                 *)

Min(S) == CHOOSE x \in S : \A y \in S : x <= y

\* Array.prototype.indexOf / String.prototype.indexOf of one element:
\* 0-based index of the first occurrence, -1 when absent.
indexOf(s, x) ==
    IF \E i \in 1..Len(s) : s[i] = x
    THEN (CHOOSE i \in 1..Len(s) :
             s[i] = x /\ \A k \in 1..(i - 1) : s[k] # x) - 1
    ELSE -1

\* Array.prototype.includes
includes(s, x) == \E i \in 1..Len(s) : s[i] = x

\* Array.prototype.slice(start, end) / String.prototype.slice, 0-based,
\* with the relative-index normalisation of the language.
slice(s, start, end) ==
    LET n  == Len(s)
        rel(k) == IF k < 0 THEN (IF n + k < 0 THEN 0 ELSE n + k)
                  ELSE (IF k > n THEN n ELSE k)
        a  == rel(start)
        b  == rel(end)
    IN  IF a >= b THEN <<>> ELSE [k \in 1..(b - a) |-> s[a + k]]

\* String.prototype.substring(start): to the end of the string.
substring(s, start) ==
    LET a == IF start < 0 THEN 0 ELSE IF start > Len(s) THEN Len(s) ELSE start
    IN  [k \in 1..(Len(s) - a) |-> s[a + k]]

\* String.prototype.startsWith
startsWith(s, p) ==
    /\ Len(p) <= Len(s)
    /\ \A k \in 1..Len(p) : s[k] = p[k]

\* String.prototype.includes(substring)
includesStr(s, p) ==
    \E o \in 0..(Len(s) - Len(p)) : \A k \in 1..Len(p) : s[o + k] = p[k]

\* String.prototype.split(sep) for a one-character separator.
RECURSIVE split(_, _)
split(s, sep) ==
    LET i == indexOf(s, sep)
    IN  IF i = -1 THEN <<s>>
        ELSE <<slice(s, 0, i)>> \o split(substring(s, i + 1), sep)

Upper == <<"A","B","C","D","E","F","G","H","I","J","K","L","M",
           "N","O","P","Q","R","S","T","U","V","W","X","Y","Z">>
Lower == <<"a","b","c","d","e","f","g","h","i","j","k","l","m",
           "n","o","p","q","r","s","t","u","v","w","x","y","z">>

\* String.prototype.toLowerCase
toLowerCase(s) ==
    [k \in 1..Len(s) |->
        IF includes(Upper, s[k]) THEN Lower[indexOf(Upper, s[k]) + 1] ELSE s[k]]

Digit == <<"0","1","2","3","4","5","6","7","8","9">>

\* Number to string as a template literal prints it (non-negative integers).
RECURSIVE numberToString(_)
numberToString(n) ==
    IF n < 10 THEN <<Digit[n + 1]>>
    ELSE numberToString(n \div 10) \o <<Digit[(n % 10) + 1]>>

\* Concatenation of a sequence of strings.
RECURSIVE concat(_)
concat(ss) == IF ss = <<>> THEN <<>> ELSE Head(ss) \o concat(Tail(ss))

----------------------------------------------------------------------------
(* String literals of the source.                                          *)

S_begin == <<"b","e","g","i","n">>
S_end == <<"e","n","d">>
S_player == <<"p","l","a","y","e","r">>
S_chat == <<"c","h","a","t">>
S_email == <<"e","m","a","i","l">>
S_endemail == <<"e","n","d","e","m","a","i","l">>
S_redeem == <<"r","e","d","e","e","m">>
S_slash == <<"/">>
\* The grave accent, U+0060, which a string of this notation cannot hold.
GRAVE == "U+0060"
S_fence == <<GRAVE, GRAVE, GRAVE>>
S_bodyOpen == <<"\n">> \o S_fence \o <<"\n">>
S_blocked == <<"*","*","U","s","a","g","e"," ","o","f"," ","b","l","o","c","k","e","d"," ","w","o","r","d",":","*","*","\n">>
S_text == <<"t","e","x","t">>
S_players == <<" ","p","l","a","y","e","r","s">>
S_zeroPlayers == <<"0"," ","p","l","a","y","e","r","s">>

\* const debug = false
debug == FALSE

\* import words from ../bannedWords.json: the configured banned words.
words == << <<"b","a","d">>, <<"x","x">> >>

\* codeBlock(language, content) of discord.js
codeBlock(language, content) ==
    S_fence \o language \o <<"\n">> \o content \o <<"\n">> \o S_fence

----------------------------------------------------------------------------
(* chatRegex, the pattern of a chat line: at the start "[", group 1 lazy,   *)
(* "]"; optionally " (", group 2 lazy, ")"; a space, group 3 lazy, " [",   *)
(* group 4 lazy, an optional "]", ": ", and group 5 greedy.                *)
(* It is matched by backtracking: every lazy group takes the shortest      *)
(* extent that lets the rest of the pattern match, and the optional parts  *)
(* are taken whenever the rest can then match.                             *)

\* "." matches any character but a line terminator.
IsDot(c) == c \notin {"\n", "\r"}

Dots(s, i, j) == \A k \in i..j : IsDot(s[k])

\* "]?: " at position d: the index where group 5 starts, 0 when no match.
tailAt(s, d) ==
    IF d + 2 <= Len(s) /\ s[d] = "]" /\ s[d + 1] = ":" /\ s[d + 2] = " "
    THEN d + 3
    ELSE IF d + 1 <= Len(s) /\ s[d] = ":" /\ s[d + 1] = " "
    THEN d + 2
    ELSE 0

\* positions just after group 4, the group starting after " [" at u, u+1
idEnds(s, u) ==
    {d \in (u + 2)..Len(s) : tailAt(s, d) # 0 /\ Dots(s, u + 2, d - 1)}

\* positions of the " [" that ends group 3, the group starting at p + 1
userEnds(s, p) ==
    {u \in (p + 1)..(Len(s) - 1) :
        /\ s[u] = " " /\ s[u + 1] = "["
        /\ Dots(s, p + 1, u - 1)
        /\ idEnds(s, u) # {}}

\* " (.*?) \[(.*?)]?: (.*)" matches from position p
afterRole(s, p) == p <= Len(s) /\ s[p] = " " /\ userEnds(s, p) # {}

\* positions of the ")" closing the role group opened by " (" after a
roleEnds(s, a) ==
    IF a + 2 <= Len(s) /\ s[a + 1] = " " /\ s[a + 2] = "("
    THEN {r \in (a + 3)..Len(s) :
            s[r] = ")" /\ Dots(s, a + 3, r - 1) /\ afterRole(s, r + 1)}
    ELSE {}

\* positions of the "]" closing group 1
tsEnds(s) ==
    IF Len(s) >= 1 /\ s[1] = "["
    THEN {a \in 2..Len(s) :
            /\ s[a] = "]" /\ Dots(s, 2, a - 1)
            /\ (roleEnds(s, a) # {} \/ afterRole(s, a + 1))}
    ELSE {}

\* the end of the greedy group 5 that starts at m
dotEnd(s, m) ==
    IF \E k \in m..Len(s) : ~IsDot(s[k])
    THEN Min({k \in m..Len(s) : ~IsDot(s[k])}) - 1
    ELSE Len(s)

\* the groups of a match: "]" of group 1 at a, ")" of group 2 at r (r = a
\* without a role), " [" at u, group 4 ending before d, group 5 from m.
\* An undefined group 2 is the empty string here, the two being equally
\* falsy where it is read.
groups(s, a, hasRole, r, u, d, m) ==
    [matched    |-> TRUE,
     timestamp  |-> slice(s, 1, a - 1),
     role       |-> IF hasRole THEN slice(s, a + 2, r - 1) ELSE <<>>,
     username   |-> slice(s, r + 1, u - 1),
     identifier |-> slice(s, u + 1, d - 1),
     message    |-> slice(s, m - 1, dotEnd(s, m))]

matchId(s, a, hasRole, r, u, d) == groups(s, a, hasRole, r, u, d, tailAt(s, d))

matchUser(s, a, hasRole, r, u) ==
    matchId(s, a, hasRole, r, u, Min(idEnds(s, u)))

matchRole(s, a, hasRole, r) ==
    matchUser(s, a, hasRole, r, Min(userEnds(s, r + 1)))

matchTs(s, a) ==
    IF roleEnds(s, a) # {}
    THEN matchRole(s, a, TRUE, Min(roleEnds(s, a)))
    ELSE matchRole(s, a, FALSE, a)

\* cnt.match(chatRegex): matched is FALSE for null
match(cnt) ==
    IF tsEnds(cnt) = {} THEN [matched |-> FALSE]
    ELSE matchTs(cnt, Min(tsEnds(cnt)))

----------------------------------------------------------------------------
(* processBuffer: the dispatch loop over the lines of a block.             *)

\* refreshStatus() gone wrong: the population shown while offline
refreshStatusIgnoresOnline(on, pop) == numberToString(pop) \o S_players

\* refreshStatus(): the text given to client.user.setActivity
refreshStatus(on, pop) ==
    IF on THEN numberToString(pop) \o S_players ELSE S_zeroPlayers

\* console.log lines, by their fixed text and the value interpolated in it
Log(text, arg) == [text |-> text, arg |-> arg]

\* queue[i][0]: the first character, undefined for an empty string
charAt0(s) == IF Len(s) = 0 THEN "undefined" ELSE s[1]

\* words.some((word) => messageWords.includes(word.toLowerCase()))
\* over messageWords = message.toLowerCase().split(' ')
hasBannedWord(message) ==
    LET messageWords == split(toLowerCase(message), " ")
    IN  \E w \in 1..Len(words) : includes(messageWords, toLowerCase(words[w]))

\* the template literal of formattedMessage
formattedMessage(m) ==
    concat(<< <<"*","*","[">>, m.timestamp, <<"]","*","*">>,
              IF m.role # <<>>
                 THEN <<" ","*","(">> \o m.role \o <<")","*">> ELSE <<>>,
              <<" ">>, m.username, <<" ">>,
              IF m.identifier # <<>>
                 THEN <<"*","[">> \o m.identifier \o <<"]","*">> ELSE <<>>,
              <<":"," ",GRAVE>>, m.message, <<GRAVE>> >>)

\* case 'chat', once cnt.match(chatRegex) gave m
chatMatched(cnt, m, st, staffChannel) ==
    IF ~m.matched THEN st
    ELSE IF \/ startsWith(m.message, S_slash)
            \/ Len(m.message) < 3
            \/ startsWith(m.message, S_redeem)
    THEN st
    ELSE IF Len(words) # 0 /\ hasBannedWord(m.message)
    THEN IF staffChannel
         THEN [st EXCEPT !.sent =
                  Append(@, S_blocked \o codeBlock(S_text, cnt))]
         ELSE st
    ELSE [st EXCEPT !.sent = Append(@, formattedMessage(m))]

\* case 'chat', cnt being the line after its first space
chatCnt(cnt, st, staffChannel) ==
    chatMatched(cnt, match(cnt), st, staffChannel)

\* case 'chat': the state after the line, st = [population, sent, logs]
chatCase(line, st, staffChannel) ==
    IF debug THEN st
    ELSE chatCnt(substring(line, indexOf(line, " ") + 1), st, staffChannel)

\* case 'email': the j at which the for loop over queue[i + j] stops, i
\* being 0-based; the loop reads queue[i + j][0], which throws a TypeError
\* once i + j is past the last line.
emailStop(q, i) ==
    Min({j \in 1..(Len(q) - i) :
            i + j >= Len(q) \/ charAt0(q[i + j + 1]) # "\t"})

emailBody(q, i, j) ==
    S_bodyOpen
    \o concat([k \in 1..(j - 1) |-> substring(q[i + k + 1], 1) \o <<"\n">>])
    \o S_fence

\* case 'email', the for loop over j having stopped without a throw:
\* the send, the endemail check, and i += j
emailCase(q, i, j, head, st) ==
    [i  |-> i + j,
     st |-> [st EXCEPT
               !.sent = IF debug THEN @
                        ELSE Append(@, head \o emailBody(q, i, j)),
               !.logs = IF includesStr(q[i + j + 1], S_endemail) THEN @
                        ELSE Append(@, Log("Bad email (no endemail)", <<>>))]]

\* the body of the dispatch loop for queue[i], i being 0-based and first
\* being tokens[0]: the values of i and st it leaves
lineCase(q, i, first, head, st, staffChannel) ==
    CASE first = S_player ->
            [i |-> i, st |-> [st EXCEPT !.population = @ + 1]]
      [] first = S_chat ->
            [i |-> i, st |-> chatCase(q[i + 1], st, staffChannel)]
      [] first = S_email ->
            IF i + emailStop(q, i) >= Len(q)
            THEN [i |-> i, st |-> [st EXCEPT !.outcome = "throw"]]
            ELSE emailCase(q, i, emailStop(q, i), head, st)
      [] OTHER ->
            [i |-> i,
             st |-> [st EXCEPT !.logs = Append(@, Log("Unknown token", first))]]

\* for (let i = 0; i < queue.length; i += 1) { ... }: the state when the
\* loop is left, outcome telling how: "done" at the end of the queue,
\* "return" by the channel check, "throw" by an exception.
RECURSIVE dispatch(_, _, _, _, _)
RECURSIVE dispatchNext(_, _, _, _)
dispatch(q, i, st, channel, staffChannel) ==
    IF i >= Len(q) THEN [st EXCEPT !.outcome = "done"]
    ELSE IF ~channel THEN [st EXCEPT !.outcome = "return"]
    ELSE dispatchNext(q,
                      lineCase(q, i, split(q[i + 1], " ")[1],
                               substring(q[i + 1], indexOf(q[i + 1], " ") + 1),
                               st, staffChannel),
                      channel, staffChannel)

\* the loop's i += 1 after the body, unless the body threw
dispatchNext(q, r, channel, staffChannel) ==
    IF r.st.outcome = "throw" THEN r.st
    ELSE dispatch(q, r.i + 1, r.st, channel, staffChannel)

\* the slice gone wrong: taken from the begin sentinel itself
blockOfFromBegin(buf) == slice(buf, indexOf(buf, S_begin), indexOf(buf, S_end))

\* the slice gone wrong: taken from the last begin before the end
blockOfLastBegin(buf) ==
    slice(buf,
          CHOOSE b \in 1..Len(buf) :
              /\ buf[b] = S_begin
              /\ \A k \in (b + 1)..Len(buf) : buf[k] # S_begin,
          indexOf(buf, S_end))

\* const queue = buffer.slice(buffer.indexOf('begin') + 1, buffer.indexOf('end'))
blockOf(buf) == slice(buf, indexOf(buf, S_begin) + 1, indexOf(buf, S_end))

\* the truncation gone wrong: the end sentinel is kept
remainderFromEnd(buf) == slice(buf, indexOf(buf, S_end), Len(buf))

\* buffer = buffer.slice(buffer.indexOf('end') + 1, buffer.length)
remainder(buf) == slice(buf, indexOf(buf, S_end) + 1, Len(buf))

\* processBuffer() once the dispatch loop over the block q is left in st:
\* refreshStatus() and the truncation are reached only past the loop's end.
afterLoop(buf, on, q, st) ==
    [population |-> st.population,
     sent       |-> st.sent,
     logs       |-> st.logs,
     outcome    |-> st.outcome,
     queue      |-> q,
     activity   |-> IF st.outcome = "done" /\ ~debug
                    THEN <<refreshStatus(on, st.population)>>
                    ELSE <<>>,
     buffer     |-> IF st.outcome = "done" THEN remainder(buf) ELSE buf]

\* the loop over the block q, entered with population = 0
overBlock(buf, on, q, channel, staffChannel) ==
    afterLoop(buf, on, q,
              dispatch(q, 0,
                       [population |-> 0, sent |-> <<>>, logs |-> <<>>,
                        outcome |-> "done"],
                       channel, staffChannel))

\* processBuffer(): the values it leaves, outcome as for dispatch and
\* "nobegin" when the buffer holds no begin.
processBuffer(buf, on, pop, channel, staffChannel) ==
    IF includes(buf, S_begin)
    THEN overBlock(buf, on, blockOf(buf), channel, staffChannel)
    ELSE
        [population |-> pop,
         sent       |-> <<>>,
         logs       |-> <<Log("Bad data (no begin); ignoring", <<>>)>>,
         outcome    |-> "nobegin",
         queue      |-> <<>>,
         activity   |-> <<>>,
         buffer     |-> remainder(buf)]

----------------------------------------------------------------------------
(* The lines the monitor sends in this model, and the data events made    *)
(* of them.                                                                *)

L_player == <<"p","l","a","y","e","r"," ","A">>
L_email == <<"e","m","a","i","l"," ","S">>
L_cont == <<"\t","b">>
L_unknown == <<"z","z">>
L_chat == <<"c","h","a","t"," ","[","1","]"," ","(","M",")"," ","A"," ","[","7","]",":"," ","h","e","l","l","o">>
L_chatPlain == <<"c","h","a","t"," ","[","1","]"," ","A",":"," ","h","e","l","l","o">>
L_chatSlashBad == <<"c","h","a","t"," ","[","1","]"," ","A"," ","[","7","]",":"," ","/","b","a","d">>
L_chatBad == <<"c","h","a","t"," ","[","1","]"," ","A"," ","[","7","]",":"," ","s","o"," ","B","a","d">>
L_chatBadly == <<"c","h","a","t"," ","[","1","]"," ","A"," ","[","7","]",":"," ","b","a","d","l","y">>
L_chatShort == <<"c","h","a","t"," ","[","1","]"," ","A"," ","[","7","]",":"," ","h","i">>
L_chatId == <<"c","h","a","t"," ","[","1","]"," ","A"," ","[","7","]",":"," ","h","e","l","l","o">>
L_chatRole == <<"c","h","a","t"," ","[","1","]"," ","(","M",")"," ","A",":"," ","h","e","l","l","o">>
L_chatRedeemBad == <<"c","h","a","t"," ","[","1","]"," ","A"," ","[","7","]",":"," ","r","e","d","e","e","m"," ","b","a","d">>
L_chatShortBad == <<"c","h","a","t"," ","[","1","]"," ","A"," ","[","7","]",":"," ","x","x">>
L_chatGarbled == <<"c","h","a","t"," ","?","?","?">>

\* the bytes of a data event carrying the given lines, each ended by "\n"
bytes(ls) == concat([k \in 1..Len(ls) |-> ls[k] \o <<"\n">>])

SeqUpTo(S, n) == UNION {[1..k -> S] : k \in 0..n}

\* Data events that cut the stream anywhere: one line each, blank lines
\* only, the end of one block together with a whole second block, and a
\* block of one email header.
Lines == {S_begin, S_end, L_player}

Chunks ==
    {bytes(<<l>>) : l \in Lines}
    \cup {<<"\n", "\n">>,
          bytes(<<S_end, S_begin, S_end>>),
          bytes(<<S_begin, L_email, S_end>>)}

\* Data events that each carry one whole block of player, email, chat and
\* unknown lines.
BlockLines == {L_player, L_email, L_cont, S_endemail, L_unknown, L_chat,
               L_chatGarbled}

Blocks ==
    {bytes(<<S_begin>> \o ls \o <<S_end>>) : ls \in SeqUpTo(BlockLines, MaxBlock)}

\* Data events that each carry one block of a chat line, alone or next to
\* a player line.
ChatLines == {L_chat, L_chatId, L_chatRole, L_chatPlain, L_chatSlashBad,
              L_chatRedeemBad, L_chatShortBad, L_chatBad, L_chatBadly,
              L_chatShort, L_chatGarbled}

ChatBlocks ==
    {bytes(<<S_begin, l, S_end>>) : l \in ChatLines}
    \cup {bytes(<<S_begin, l, L_player, S_end>>) : l \in ChatLines}
    \cup {bytes(<<S_begin, L_player, l, S_end>>) : l \in ChatLines}

----------------------------------------------------------------------------
(* State and handlers of connectFusionFall.                                *)

NoStale == [connecting |-> 0, connected |-> 0, ended |-> 0]

Count(st) ==
    (IF socket.state = st THEN 1 ELSE 0) + stale[st]

\* timers and sockets from which a reconnect can still follow
Alive == timers + Count("connecting") + Count("connected")

Init ==
    /\ online = FALSE
    /\ population = 0
    /\ buffer = <<>>
    /\ socket = [state |-> "connecting", first |-> TRUE]
    /\ stale = NoStale
    /\ timers = 0
    /\ crashed = FALSE
    /\ event = "connectFusionFall"
    /\ queue = <<>>
    /\ sent = <<>>
    /\ logs = <<Log("Connecting to monitor", <<>>)>>
    /\ activity = <<>>
    /\ env = [channel |-> TRUE, staffChannel |-> FALSE, entry |-> <<>>,
              outcome |-> "none"]

\* env of a handler that looks nothing up and does not run processBuffer
NoEnv == [channel |-> TRUE, staffChannel |-> FALSE, entry |-> <<>>,
          outcome |-> "none"]

\* the socket a handler runs for: the current one (TRUE) or a stale one,
\* taken from state `from` to state `to` ("closed" sockets are forgotten)
Move(cur, from, to) ==
    IF cur
    THEN /\ socket.state = from
         /\ socket' = [socket EXCEPT !.state = to]
         /\ stale' = stale
    ELSE /\ stale[from] > 0
         /\ socket' = socket
         /\ stale' = IF to = "closed"
                     THEN [stale EXCEPT ![from] = @ - 1]
                     ELSE [stale EXCEPT ![from] = @ - 1, ![to] = @ + 1]

\* the connect listener given to net.connect
onConnect(cur) ==
    /\ ~crashed
    /\ Move(cur, "connecting", "connected")
    /\ online' = TRUE
    /\ logs' = <<Log(IF cur /\ socket.first THEN "Connected."
                     ELSE "Reconnected.", <<>>)>>
    /\ event' = "connect"
    /\ queue' = <<>> /\ sent' = <<>> /\ activity' = <<>> /\ env' = NoEnv
    /\ UNCHANGED <<population, buffer, timers, crashed>>

\* onData once processBuffer has run on buf and left r
processed(buf, r, channel, staffChannel) ==
    /\ buffer' = r.buffer
    /\ population' = r.population
    /\ queue' = r.queue
    /\ sent' = r.sent
    /\ logs' = r.logs
    /\ activity' = r.activity
    /\ crashed' = (r.outcome = "throw")
    /\ env' = [channel |-> channel, staffChannel |-> staffChannel,
               entry |-> buf, outcome |-> r.outcome]

\* onData once the tokens of the data are pushed, the buffer then being buf
pushed(buf, channel, staffChannel) ==
    IF includes(buf, S_end)
    THEN processed(buf,
                   processBuffer(buf, online, population,
                                 channel, staffChannel),
                   channel, staffChannel)
    ELSE /\ buffer' = buf
         /\ queue' = <<>> /\ sent' = <<>> /\ logs' = <<>>
         /\ activity' = <<>> /\ env' = NoEnv
         /\ UNCHANGED <<population, crashed>>

\* data.toString().split('\n') without its empty tokens
tokensOf(data) == SelectSeq(split(data, "\n"), LAMBDA t : Len(t) > 0)

\* onData gone wrong: processBuffer is called only when the data itself
\* carries an end
onDataOnEndArrival(data, channel, staffChannel) ==
    /\ ~crashed
    /\ Count("connected") > 0
    /\ Len(buffer \o tokensOf(data)) <= MaxBuffer
    /\ IF includes(tokensOf(data), S_end)
       THEN pushed(buffer \o tokensOf(data), channel, staffChannel)
       ELSE /\ buffer' = buffer \o tokensOf(data)
            /\ queue' = <<>> /\ sent' = <<>> /\ logs' = <<>>
            /\ activity' = <<>> /\ env' = NoEnv
            /\ UNCHANGED <<population, crashed>>
    /\ event' = "data"
    /\ UNCHANGED <<online, socket, stale, timers>>

\* function onData(data), the buffer then being buf; data that would make
\* the buffer longer than limit lines does not come
onDataWithin(limit, buf, channel, staffChannel) ==
    /\ ~crashed
    /\ Count("connected") > 0
    /\ Len(buf) <= limit
    /\ pushed(buf, channel, staffChannel)
    /\ event' = "data"
    /\ UNCHANGED <<online, socket, stale, timers>>

\* function onData(data)
onData(data, channel, staffChannel) ==
    onDataWithin(MaxBuffer, buffer \o tokensOf(data), channel, staffChannel)

\* function onErr(): a socket that is connecting, connected or half-closed
\* reports an error and is destroyed
onErr(cur, from) ==
    /\ ~crashed
    /\ from \in {"connecting", "connected", "ended"}
    /\ from = "ended" => Alive < MaxPending
    /\ Move(cur, from, "closed")
    /\ online' = FALSE
    /\ timers' = timers + 1
    /\ event' = "error"
    /\ queue' = <<>> /\ sent' = <<>> /\ logs' = <<>> /\ activity' = <<>>
    /\ env' = NoEnv
    /\ UNCHANGED <<population, buffer, crashed>>

\* onEnd gone wrong: no reconnect attempt is scheduled
onEndWithoutTimer(cur) ==
    /\ ~crashed
    /\ Count("ended") < MaxPending
    /\ Move(cur, "connected", "ended")
    /\ online' = FALSE
    /\ timers' = timers
    /\ event' = "end"
    /\ logs' = <<Log("Lost connection to monitor.", <<>>)>>
    /\ queue' = <<>> /\ sent' = <<>> /\ activity' = <<>> /\ env' = NoEnv
    /\ UNCHANGED <<population, buffer, crashed>>

\* function onEnd(): the peer closed its side of a connected socket
onEnd(cur) ==
    /\ ~crashed
    /\ Count("ended") < MaxPending
    /\ Move(cur, "connected", "ended")
    /\ online' = FALSE
    /\ timers' = timers + 1
    /\ event' = "end"
    /\ logs' = <<Log("Lost connection to monitor.", <<>>)>>
    /\ queue' = <<>> /\ sent' = <<>> /\ activity' = <<>> /\ env' = NoEnv
    /\ UNCHANGED <<population, buffer, crashed>>

\* a half-closed socket closes; no listener is attached to that
onClose(cur) ==
    /\ ~crashed
    /\ Move(cur, "ended", "closed")
    /\ event' = "close"
    /\ queue' = <<>> /\ sent' = <<>> /\ logs' = <<>> /\ activity' = <<>>
    /\ env' = NoEnv
    /\ UNCHANGED <<online, population, buffer, timers, crashed>>

\* attemptReconnect gone wrong: the buffer starts afresh with the socket
attemptReconnectFreshBuffer ==
    /\ ~crashed
    /\ timers > 0
    /\ timers' = timers - 1
    /\ logs' = <<Log("Attempting to reconnect...", <<>>)>>
    /\ activity' = IF ~debug THEN <<refreshStatus(online, population)>>
                   ELSE <<>>
    /\ stale' = IF socket.state = "closed" THEN stale
                ELSE [stale EXCEPT ![socket.state] = @ + 1]
    /\ socket' = [state |-> "connecting", first |-> FALSE]
    /\ event' = "attemptReconnect"
    /\ buffer' = <<>>
    /\ queue' = <<>> /\ sent' = <<>> /\ env' = NoEnv
    /\ UNCHANGED <<online, population, crashed>>

\* function attemptReconnect(), run by a timer of onErr or onEnd
attemptReconnect ==
    /\ ~crashed
    /\ timers > 0
    /\ timers' = timers - 1
    /\ logs' = <<Log("Attempting to reconnect...", <<>>)>>
    /\ activity' = IF ~debug THEN <<refreshStatus(online, population)>>
                   ELSE <<>>
    /\ stale' = IF socket.state = "closed" THEN stale
                ELSE [stale EXCEPT ![socket.state] = @ + 1]
    /\ socket' = [state |-> "connecting", first |-> FALSE]
    /\ event' = "attemptReconnect"
    /\ queue' = <<>> /\ sent' = <<>> /\ env' = NoEnv
    /\ UNCHANGED <<online, population, buffer, crashed>>

\* the steps of the session over the data events and lookup results given
Step(chunks, staffChannels) ==
    \/ \E cur \in BOOLEAN : onConnect(cur)
    \/ \E data \in chunks, channel \in BOOLEAN,
          staffChannel \in staffChannels :
          onData(data, channel, staffChannel)
    \/ \E cur \in BOOLEAN, from \in {"connecting", "connected", "ended"} :
          onErr(cur, from)
    \/ \E cur \in BOOLEAN : onEnd(cur)
    \/ \E cur \in BOOLEAN : onClose(cur)
    \/ attemptReconnect

\* no line of Chunks is a chat line, so the staff channel is never read
Next == Step(Chunks, {FALSE})

Spec == Init /\ [][Next]_vars

\* The session once its first socket has connected: Init followed by
\* onConnect(TRUE).
Connected ==
    /\ online = TRUE
    /\ population = 0
    /\ buffer = <<>>
    /\ socket = [state |-> "connected", first |-> TRUE]
    /\ stale = NoStale
    /\ timers = 0
    /\ crashed = FALSE
    /\ event = "connect"
    /\ queue = <<>>
    /\ sent = <<>>
    /\ logs = <<Log("Connected.", <<>>)>>
    /\ activity = <<>>
    /\ env = NoEnv

\* The connection staying up and the monitor sending whole blocks.
NextBlock ==
    \E data \in Blocks, channel \in BOOLEAN : onData(data, channel, FALSE)

SpecBlock == Connected /\ [][NextBlock]_vars

\* The same with blocks of chat lines; the staff channel is configured or
\* not, and found in the cache or not.
NextChat ==
    \E data \in ChatBlocks, channel \in BOOLEAN, staffChannel \in BOOLEAN :
        onData(data, channel, staffChannel)

SpecChat == Connected /\ [][NextChat]_vars

\* The monitor sending a stream of well-formed blocks, cut into data events
\* at any line boundaries. A position of the stream is "out" between
\* blocks, "in" inside a block, "mail" after an email header, and "bad" once
\* a token came that the protocol does not allow there.
StreamTokens ==
    {S_begin, S_end, L_player, L_chat, L_chatId, L_email, L_cont, S_endemail}

protocolStep(pos, t) ==
    CASE pos = "out" /\ t = S_begin -> "in"
      [] pos = "in" /\ t = S_end -> "out"
      [] pos = "in" /\ t \in {L_player, L_chat, L_chatId} -> "in"
      [] pos = "in" /\ t = L_email -> "mail"
      [] pos = "mail" /\ t = L_cont -> "mail"
      [] pos = "mail" /\ t = S_endemail -> "in"
      [] OTHER -> "bad"

RECURSIVE protocolAfter(_, _)
protocolAfter(pos, ts) ==
    IF ts = <<>> THEN pos
    ELSE protocolAfter(protocolStep(pos, Head(ts)), Tail(ts))

\* the runs of at most n tokens that can follow when the stream has
\* reached pos
RECURSIVE StreamRuns(_, _)
StreamRuns(pos, n) ==
    IF n = 0 THEN {<<>>}
    ELSE {<<>>} \cup
         UNION {{<<t>> \o r : r \in StreamRuns(protocolStep(pos, t), n - 1)} :
                t \in {x \in StreamTokens : protocolStep(pos, x) # "bad"}}

\* the data events of at most n lines that can follow at pos
StreamChunks(pos, n) == {bytes(ts) : ts \in StreamRuns(pos, n) \ {<<>>}}

\* the buffer holds the stream from the begin of a block on; a data event
\* brings what the buffer has room for
NextStream ==
    \E data \in StreamChunks(protocolAfter("out", buffer),
                              MaxBuffer - Len(buffer)),
       channel \in BOOLEAN :
        onData(data, channel, FALSE)

SpecStream == Connected /\ [][NextStream]_vars

\* The monitor sending begin, end and player lines one per data event,
\* over a connection that is lost and made again, one socket and one timer
\* at a time.
NextMerge ==
    \/ onConnect(TRUE)
    \/ \E l \in Lines, channel \in BOOLEAN :
          onDataWithin(MaxMerged, buffer \o tokensOf(bytes(<<l>>)),
                       channel, FALSE)
    \/ \E from \in {"connecting", "connected"} : onErr(TRUE, from)
    \/ onEnd(TRUE)
    \/ \E cur \in BOOLEAN : onClose(cur)
    \/ attemptReconnect

SpecMerge == Init /\ [][NextMerge]_vars

----------------------------------------------------------------------------
(* Vocabulary of the properties.                                           *)

\* x occurs in s at index i and nowhere before
FirstAt(s, x, i) == s[i] = x /\ \A k \in 1..(i - 1) : s[k] # x

\* the lines of s after its first end
AfterFirstEnd(s) ==
    LET e == CHOOSE i \in 1..Len(s) : FirstAt(s, S_end, i)
    IN  [k \in 1..(Len(s) - e) |-> s[e + k]]

\* processBuffer ran in the last handler
Ran == env.outcome # "none"

\* processBuffer ran in the last handler and returned, by its end or by the
\* return of its channel check
Returned == env.outcome \in {"done", "return", "nobegin"}

\* the first token of a line: what precedes its first space
FirstToken(l) ==
    IF \E i \in 1..Len(l) : l[i] = " "
    THEN SubSeq(l, 1, (CHOOSE i \in 1..Len(l) : FirstAt(l, " ", i)) - 1)
    ELSE l

\* how many lines of q have the first token tok
LinesOf(q, tok) == Cardinality({i \in 1..Len(q) : FirstToken(q[i]) = tok})

\* how many log lines have the given text
LogsOf(ls, text) == Cardinality({i \in 1..Len(ls) : ls[i].text = text})

----------------------------------------------------------------------------
(* C1. Whenever processBuffer runs on a buffer in which a begin precedes   *)
(* the first end, the block it slices for dispatch is exactly the lines    *)
(* strictly between the first begin and the first end, in arrival order.   *)

C1_BlockIsBetweenSentinels ==
    Ran =>
        \A b \in 1..Len(env.entry), e \in 1..Len(env.entry) :
            (/\ FirstAt(env.entry, S_begin, b)
             /\ FirstAt(env.entry, S_end, e)
             /\ b < e)
            => queue = [k \in 1..(e - b - 1) |-> env.entry[b + k]]

\* a block of at least one line was cut out of a buffer with a line before
\* its begin
C1_Witness ==
    /\ env.outcome = "done"
    /\ \E b \in 2..Len(env.entry), e \in 1..Len(env.entry) :
          /\ FirstAt(env.entry, S_begin, b)
          /\ FirstAt(env.entry, S_end, e)
          /\ b + 1 < e
          /\ queue = <<env.entry[b + 1]>>

(* C2. For every block with k lines whose first token is player,           *)
(* population equals k once processBuffer has finished with the block.     *)

C2_PopulationCountsPlayers ==
    env.outcome = "done" => population = LinesOf(queue, S_player)

(* C3. After every invocation of processBuffer, whatever the block holds   *)
(* and whether or not the relay channel is available, the buffer is        *)
(* exactly the lines that followed the first end.                          *)

C3_BufferTruncated ==
    Returned => buffer = AfterFirstEnd(env.entry)

(* C4. The banned-word check comes before the noise filters: a chat       *)
(* message that contains a banned word and is shorter than 3 characters,   *)
(* or starts with "/", or starts with "redeem", still produces the         *)
(* flagged-content notice.                                                 *)

\* the text of a chat line after "chat " and what the pattern makes of it
ChatText(l) == SubSeq(l, Len(S_chat) + 2, Len(l))

Parsed(l) == match(ChatText(l))

IsChat(l) == FirstToken(l) = S_chat /\ Parsed(l).matched

\* some banned word occurs in msg as a case-insensitive substring
ContainsBanned(msg) ==
    \E w \in 1..Len(words) :
        includesStr(toLowerCase(msg), toLowerCase(words[w]))

IsNoise(msg) ==
    Len(msg) < 3 \/ startsWith(msg, S_slash) \/ startsWith(msg, S_redeem)

\* the flagged-content notice of a chat line
Notice(l) == S_blocked \o codeBlock(S_text, ChatText(l))

C4_BannedBeforeNoise ==
    (env.outcome = "done" /\ env.staffChannel) =>
        \A i \in 1..Len(queue) :
            (/\ IsChat(queue[i])
             /\ ContainsBanned(Parsed(queue[i]).message)
             /\ IsNoise(Parsed(queue[i]).message))
            => \E k \in 1..Len(sent) : sent[k] = Notice(queue[i])

(* C5. For a chat line whose message contains a banned word nothing is     *)
(* sent to the public relay channel: the notice goes to the moderation     *)
(* channel only, and nothing is sent at all when that is not configured.   *)
(* Stated of blocks whose other lines are player lines, which send         *)
(* nothing; sent holds what went to the public channel.                    *)

C5_BannedNeverPublic ==
    (/\ env.outcome = "done"
     /\ LinesOf(queue, S_player) = Len(queue) - 1
     /\ \E i \in 1..Len(queue) :
           IsChat(queue[i]) /\ ContainsBanned(Parsed(queue[i]).message))
    => sent = <<>>

(* C6. Whenever a socket reports error or end, online is false right after *)
(* the handler and one more reconnect attempt is scheduled; when a         *)
(* reconnect attempt's connection succeeds, online is true again.          *)

C6_DisconnectThenReconnect ==
    [][/\ event' \in {"error", "end"} =>
            (online' = FALSE /\ timers' = timers + 1)
       /\ event' = "connect" => online' = TRUE]_vars

\* a socket made by attemptReconnect has connected after a disconnect
C6_Witness ==
    /\ event = "connect"
    /\ ~socket.first
    /\ socket.state = "connected"
    /\ online

(* C7. For every block in which an email header is followed by zero or     *)
(* more tab-prefixed lines and then by no line containing endemail, also   *)
(* when these are the last lines of the block, processing completes        *)
(* without raising, the malformed-email diagnostic is logged exactly once, *)
(* and the relay receives the header plus the body lines collected.        *)
(* Stated of blocks that start with the email header.                      *)

\* q starts with an email header and n tab-prefixed lines, and what
\* follows them, if anything, does not contain endemail
UnterminatedEmail(q, n) ==
    /\ Len(q) >= n + 1
    /\ FirstToken(q[1]) = S_email
    /\ \A k \in 2..(n + 1) : q[k][1] = "\t"
    /\ Len(q) > n + 1 =>
          (q[n + 2][1] # "\t" /\ ~includesStr(q[n + 2], S_endemail))

\* the header and the n body lines in a code block
EmailText(q, n) ==
    SubSeq(q[1], Len(S_email) + 2, Len(q[1]))
    \o <<"\n">> \o S_fence \o <<"\n">>
    \o concat([k \in 1..n |-> Tail(q[k + 1]) \o <<"\n">>])
    \o S_fence

C7_UnterminatedEmailSurvives ==
    (Ran /\ env.channel) =>
        \A n \in 0..Len(queue) :
            UnterminatedEmail(queue, n) =>
                /\ env.outcome = "done"
                /\ LogsOf(logs, "Bad email (no endemail)") = 1
                /\ sent # <<>>
                /\ sent[1] = EmailText(queue, n)

(* C8. The error handler, the end handler and attemptReconnect leave the   *)
(* buffer unchanged, and so do a connect and a close: the lines buffered   *)
(* before a disconnect are still there, in order, after any number of      *)
(* disconnects and reconnects.                                             *)

C8_BufferSurvivesReconnect ==
    [][event' \in {"error", "end", "attemptReconnect", "connect", "close"}
         => buffer' = buffer]_vars

\* lines are in the buffer when a reconnect succeeds
C8_Witness ==
    /\ event = "connect"
    /\ ~socket.first
    /\ socket.state = "connected"
    /\ buffer # <<>>

(* C9. Reconnection never gives up: with the timer fair, every error or    *)
(* end event is eventually followed by a new connection attempt.           *)

FairSpec ==
    /\ Spec
    /\ WF_vars(attemptReconnect)
    /\ WF_vars(\E cur \in BOOLEAN : onConnect(cur))

C9_ReconnectNeverGivesUp ==
    (event \in {"error", "end"}) ~> (event = "attemptReconnect")

(* C10. After every block that processBuffer dispatches to its last line   *)
(* (an empty block too), the presence setter has been called exactly once, *)
(* with the text of the block's population when online is true and with    *)
(* "0 players" when online is false.                                       *)

C10_PresenceOncePerBlock ==
    env.outcome = "done" =>
        activity = <<IF online THEN numberToString(population) \o S_players
                     ELSE S_zeroPlayers>>

\* a block with players was dispatched while the session was offline
C10_Witness ==
    /\ env.outcome = "done"
    /\ ~online
    /\ population > 0
    /\ activity = <<S_zeroPlayers>>

(* C11. After a socket error or end event the presence is refreshed to     *)
(* the offline text "0 players" before the reconnect delay elapses, that   *)
(* is strictly before the timer of the handler fires. Stated of a timer    *)
(* that fires with no other handler run since the error or end handler:    *)
(* the refresh was then made by that handler.                              *)

C11_OfflinePresenceBeforeTimer ==
    [][(event \in {"error", "end"} /\ event' = "attemptReconnect")
         => activity = <<S_zeroPlayers>>]_vars

(* C12. Whenever processBuffer runs on a buffer whose first end has no     *)
(* begin before it, also when a begin occurs after that end, the           *)
(* malformed-data diagnostic is logged, no block is dispatched, population *)
(* and presence are left unchanged and the buffer is truncated to the      *)
(* lines after that end.                                                   *)

\* s holds an end and no begin before its first end
NoBeginBeforeEnd(s) ==
    \E e \in 1..Len(s) :
        FirstAt(s, S_end, e) /\ \A k \in 1..(e - 1) : s[k] # S_begin

C12_NoBeginIsMalformed ==
    [][(env'.outcome # "none" /\ NoBeginBeforeEnd(env'.entry)) =>
           /\ logs' = <<Log("Bad data (no begin); ignoring", <<>>)>>
           /\ sent' = <<>>
           /\ activity' = <<>>
           /\ population' = population
           /\ buffer' = AfterFirstEnd(env'.entry)]_vars

(* C13. Each data event extracts at most one block; when one chunk carries *)
(* several begin...end spans only the first is processed, and the rest     *)
(* stay in the buffer and are not processed until a later end arrives: a   *)
(* data event that carries no end does not run processBuffer.              *)

\* the tokens the data event of this step appended hold an end
EndArrived ==
    \E k \in (Len(buffer) + 1)..Len(env'.entry) : env'.entry[k] = S_end

C13_LeftoverWaitsForEnd ==
    [][(event' = "data" /\ env'.outcome # "none") => EndArrived]_vars

(* C13, amended. Each data event runs processBuffer at most once and so    *)
(* extracts at most one block, the one up to the first end; it runs it     *)
(* exactly when the buffer, the tokens of the event appended, holds an     *)
(* end, so a span left in the buffer is processed by the next data event   *)
(* whatever that event carries.                                            *)

C13_LeftoverWaitsForData ==
    [][event' = "data" =>
          /\ includes(buffer, S_end) => env'.outcome # "none"
          /\ env'.outcome = "none" => ~includes(buffer', S_end)
          /\ env'.outcome # "none" =>
                /\ includes(env'.entry, S_end)
                /\ buffer' \in {AfterFirstEnd(env'.entry), env'.entry}]_vars

\* the span left by "end, begin, end" was processed when a player line
\* arrived
C13_Witness ==
    /\ event = "data"
    /\ env.outcome = "done"
    /\ env.entry = <<S_begin, S_end, L_player>>
    /\ buffer = <<L_player>>

(* C14. The session owns one socket at a time: in every reachable state,   *)
(* for any interleaving of error, end, connect and timer events, at most   *)
(* one reconnect timer is pending and at most one socket that can still    *)
(* connect or deliver data has the data, error and end handlers attached.  *)

C14_OneSocketOneTimer ==
    /\ timers <= 1
    /\ Count("connecting") + Count("connected") <= 1

(* C15. In every reachable state online is true only if the current socket *)
(* of the session is connected and has neither errored nor ended; online   *)
(* is false before the first successful connect and whenever a reconnect   *)
(* timer is pending.                                                       *)

C15_OnlineMeansConnected ==
    /\ online => (socket.state = "connected" /\ timers = 0)
    /\ (socket.first /\ socket.state = "connecting") => ~online

(* C16. For a stream of well-formed blocks delivered over any number of    *)
(* data events, blocks are dispatched in the order in which their end      *)
(* arrived, each at most once, the lines of a block are handled top to     *)
(* bottom, and the processing of two blocks never interleaves. The buffer  *)
(* holding the stream from the first block not yet dispatched, this is:    *)
(* a processBuffer that reaches the end of its block has dispatched the    *)
(* first block of the buffer and no line of another, has sent the relays   *)
(* of its lines in the order of the lines, and leaves the buffer without   *)
(* that block; one that the channel check leaves has sent nothing and      *)
(* keeps the block.                                                        *)

\* the lines of s before its first end and after the begin that s starts with
FirstBlock(s) ==
    LET e == CHOOSE i \in 1..Len(s) : FirstAt(s, S_end, i)
    IN  [k \in 1..(e - 2) |-> s[k + 1]]

\* how many tab-prefixed lines follow line i of q
TabRun(q, i) ==
    Cardinality({k \in (i + 1)..Len(q) :
                    \A h \in (i + 1)..k : q[h][1] = "\t"})

\* what the relay channel receives for line i of the block q
RelayOf(q, i) ==
    IF IsChat(q[i]) THEN <<formattedMessage(Parsed(q[i]))>>
    ELSE IF FirstToken(q[i]) = S_email
    THEN <<EmailText(SubSeq(q, i, Len(q)), TabRun(q, i))>>
    ELSE <<>>

RECURSIVE RelaysFrom(_, _)
RelaysFrom(q, i) ==
    IF i > Len(q) THEN <<>> ELSE RelayOf(q, i) \o RelaysFrom(q, i + 1)

C16_BlocksInOrder ==
    [][event' = "data" =>
          /\ env'.outcome \notin {"throw", "nobegin"}
          /\ env'.outcome = "done" =>
                /\ env'.entry[1] = S_begin
                /\ queue' = FirstBlock(env'.entry)
                /\ sent' = RelaysFrom(queue', 1)
                /\ population' = LinesOf(queue', S_player)
                /\ buffer' = AfterFirstEnd(env'.entry)
          /\ env'.outcome = "return" =>
                (sent' = <<>> /\ buffer' = env'.entry)]_vars

\* a block with a chat line was dispatched and relayed while the buffer
\* already held the begin of the next block, which is kept
C16_Witness ==
    /\ env.outcome = "done"
    /\ Len(env.entry) = 4
    /\ queue = <<env.entry[2]>>
    /\ IsChat(queue[1])
    /\ sent = <<formattedMessage(Parsed(queue[1]))>>
    /\ buffer = <<S_begin>>

(* C17. A malformed segment inside a block (an unparsable chat line, an    *)
(* unknown first token, or an email whose continuation lines are not       *)
(* followed by endemail) affects only that segment: every line of the      *)
(* block that comes after it is still dispatched as its own event. Stated  *)
(* of blocks that start with the malformed segment and go on with one or   *)
(* more player lines and nothing else: each of these is counted.           *)

\* the first line of q is a malformed segment by itself
MalformedLine(q) ==
    /\ Len(q) >= 1
    /\ \/ FirstToken(q[1]) = S_chat /\ ~Parsed(q[1]).matched
       \/ FirstToken(q[1]) \notin {S_player, S_chat, S_email}

\* the first n lines of q are a malformed segment
MalformedSegment(q, n) ==
    \/ n = 1 /\ MalformedLine(q)
    \/ n >= 1 /\ UnterminatedEmail(q, n - 1)

C17_MalformedSegmentIsolated ==
    (Ran /\ env.channel) =>
        \A n \in 1..(Len(queue) - 1) :
            (/\ MalformedSegment(queue, n)
             /\ \A k \in (n + 1)..Len(queue) : queue[k] = L_player)
            => (env.outcome = "done" /\ population = Len(queue) - n)

(* C18. The banned-word test flags a message exactly when some listed word *)
(* occurs in it as a case-insensitive substring at any position, also      *)
(* inside a longer word. Stated of the chat lines that reach the test,     *)
(* those the noise filters let through, with the staff channel found: the  *)
(* notice of the line is sent exactly when its message contains a listed   *)
(* word.                                                                   *)

C18_BannedIsSubstring ==
    (env.outcome = "done" /\ env.staffChannel) =>
        \A i \in 1..Len(queue) :
            (IsChat(queue[i]) /\ ~IsNoise(Parsed(queue[i]).message)) =>
                ((\E k \in 1..Len(sent) : sent[k] = Notice(queue[i]))
                 <=> ContainsBanned(Parsed(queue[i]).message))

(* C19. For each of the four shapes of chat line (role present or absent,  *)
(* identifier present or absent) with a message that passes the filters,   *)
(* the line is parsed and relayed as the timestamp in bold brackets, then  *)
(* the role in italic parentheses only if there is one, then the username, *)
(* then the identifier in italic brackets only if there is one, then the   *)
(* message between grave accents; a line without identifier is not         *)
(* dropped.                                                                *)

\* the chat line of timestamp 1, role M, username A, identifier 7 and
\* message hello, with the role and the identifier or without
ShapeLine(hasRole, hasId) ==
    <<"c","h","a","t"," ","[","1","]">>
    \o (IF hasRole THEN <<" ","(","M",")">> ELSE <<>>)
    \o <<" ","A">>
    \o (IF hasId THEN <<" ","[","7","]">> ELSE <<>>)
    \o <<":"," ","h","e","l","l","o">>

\* the relay of that line
ShapeRelay(hasRole, hasId) ==
    <<"*","*","[","1","]","*","*">>
    \o (IF hasRole THEN <<" ","*","(","M",")","*">> ELSE <<>>)
    \o <<" ","A">>
    \o (IF hasId THEN <<" ","*","[","7","]","*">> ELSE <<>>)
    \o <<":"," ",GRAVE,"h","e","l","l","o",GRAVE>>

C19_FourChatShapesRelayed ==
    env.outcome = "done" =>
        \A hasRole \in BOOLEAN, hasId \in BOOLEAN :
            (\E i \in 1..Len(queue) : queue[i] = ShapeLine(hasRole, hasId))
            => \E k \in 1..Len(sent) : sent[k] = ShapeRelay(hasRole, hasId)

(* C20. Lines of an unterminated block survive a disconnect and are merged *)
(* into the next block: if the buffer holds begin and m player lines with  *)
(* no end when the socket drops, and after the reconnect the stream        *)
(* delivers begin, n player lines and end, then the one block dispatched   *)
(* holds the m old lines, the second begin, reported as an unknown token,  *)
(* and the n new lines, and population becomes m + n.                      *)

Players(k) == [i \in 1..k |-> L_player]

\* begin, m player lines, begin, n player lines, end
Merged(m, n) ==
    <<S_begin>> \o Players(m) \o <<S_begin>> \o Players(n) \o <<S_end>>

C20_OpenBlockMergedAfterReconnect ==
    env.outcome = "done" =>
        \A m \in 0..MaxMerged, n \in 0..MaxMerged :
            env.entry = Merged(m, n) =>
                /\ queue = Players(m) \o <<S_begin>> \o Players(n)
                /\ population = m + n
                /\ logs = <<Log("Unknown token", S_begin)>>
                /\ buffer = <<>>

\* a socket made by attemptReconnect delivered the end of a block merged
\* of one old and one new player line
C20_Witness ==
    /\ event = "data"
    /\ env.outcome = "done"
    /\ ~socket.first
    /\ env.entry = Merged(1, 1)
    /\ population = 2

====
